---- MODULE Spec2Model ----
(***************************************************************************)
(* A model of the paint editor's canvas / tool / history core:             *)
(*   history.py  HistoryManager  (bounded undo and redo deques of images)  *)
(*   tools.py    BaseTool, BrushTool, EraserTool, FillTool, Tools          *)
(*   drawing.py  Canvas          (image, view, gestures, undo/redo)        *)
(*                                                                         *)
(* QImage objects are modelled with identity: `heap` maps an object id to  *)
(* the object's value, QImage.copy() allocates a fresh object, QPainter    *)
(* and the fill's packed writes change an object in place.                 *)
(***************************************************************************)
EXTENDS Integers, Sequences, FiniteSets, TLC

(***************************************************************************)
(* Bounds of the model.                                                    *)
(***************************************************************************)
\* capacity of each deque (HistoryManager(max_history=30) in the program)
MaxHistory == 2
\* largest image width an operation on the Canvas is given; the Canvas is run
\* on images one pixel high (800 x 600 at start in the program)
MaxW == 2
\* largest width / height of the buffers the fill tool is run on alone
FillMaxW == 3
FillMaxH == 2
\* number of events a run of the Canvas is followed for
MaxSteps == 5
\* number of wheel notches in a row the zoom factor is followed for
MaxWheel == 3
\* largest x of a wheel or pan event in the widget
MaxPos == 3
\* number of set_size calls a run of resizes is followed for, and the largest
\* width / height of the images resized and of the sizes asked for
MaxResizes == 2
ResizeMaxW == 2
ResizeMaxH == 2

(***************************************************************************)
(* Colours: QRgb values 0xAARRGGBB, kept as their four bytes <<A, R, G, B>> *)
(* (the checker's integers are signed 32-bit).                              *)
(***************************************************************************)
qRgba(r, g, b, a) == <<a, r, g, b>>
White == qRgba(255, 255, 255, 255)
Black == qRgba(0, 0, 0, 255)
Red   == qRgba(255, 0, 0, 255)
Colors == {White, Black, Red}

(***************************************************************************)
(* Images.  A QImage of format RGB32 is its width, its height and its      *)
(* buffer of 32-bit words in row-major order (bytesPerLine = 4 * width).   *)
(***************************************************************************)
\* what a slot of the heap holds while no object lives there
NoImage == [w |-> 0 - 1, h |-> 0, px |-> <<>>]
\* QImage(): the null image, 0 x 0 with no buffer
NullImage == [w |-> 0, h |-> 0, px |-> <<>>]
None == 0
NumImages == 2 * MaxHistory + 3
ImgIds == 1..NumImages

\* byte offset y * bytes_per_line + x * 4, in words and 1-based
Offset(img, p) == p[2] * img.w + p[1] + 1
\* image.rect().contains(p)
Contains(img, p) == 0 <= p[1] /\ p[1] < img.w /\ 0 <= p[2] /\ p[2] < img.h
\* the cell of a 1-based word index
CellOf(img, i) == << (i - 1) % img.w, (i - 1) \div img.w >>

\* the opaque word a pen or a fill of this colour writes into an RGB32 buffer
PenWord(color) == [color EXCEPT ![1] = 255]

\* QImage(w, h, Format_RGB32) followed by fill(color); with a width or a height
\* below 1 the constructor gives the null image and fill has nothing to fill
QImage_filled(w, h, color) ==
    IF w < 1 \/ h < 1 THEN NullImage
    ELSE [w |-> w, h |-> h, px |-> [i \in 1..(w * h) |-> PenWord(color)]]

\* image.pixel(p) on an RGB32 image: the stored word with the alpha forced to 0xff
QImage_pixel(img, p) == [img.px[Offset(img, p)] EXCEPT ![1] = 255]

\* the smallest free object id
FreeIds(hp) == {i \in ImgIds : hp[i] = NoImage}
NewId(hp) == CHOOSE i \in FreeIds(hp) : \A j \in FreeIds(hp) : i <= j

\* image.copy(): a new object with the same value
QImage_copy(hp, id) ==
    [heap |-> [hp EXCEPT ![NewId(hp)] = hp[id]], id |-> NewId(hp)]

\* Objects no longer referenced are released (reference counting).  The program
\* never looks at an object's identity, only at what its references reach, so
\* the objects still referenced are renumbered in the order of `refs`: object
\* graphs that differ only in the ids are one state.
SeqRange(s) == {s[i] : i \in 1..Len(s)}
RECURSIVE Dedup(_, _)
Dedup(s, acc) ==
    IF s = << >> THEN acc
    ELSE Dedup(Tail(s), IF Head(s) \in SeqRange(acc) THEN acc ELSE Append(acc, Head(s)))
FirstIndex(s, x) == CHOOSE i \in 1..Len(s) : s[i] = x /\ \A j \in 1..(i - 1) : s[j] # x
Renamed(refs, x) ==
    IF x \in SeqRange(refs) THEN FirstIndex(Dedup(refs, << >>), x) ELSE x
Collect(hp, refs) ==
    LET d == Dedup(refs, << >>)
    IN  [i \in ImgIds |-> IF i <= Len(d) THEN hp[d[i]] ELSE NoImage]
RenamedSeq(refs, s) == [i \in 1..Len(s) |-> Renamed(refs, s[i])]

(***************************************************************************)
(* history.py: HistoryManager                                              *)
(***************************************************************************)
\* deque(maxlen=max_history).append: a full deque drops its oldest entry
deque_append_unbounded(dq, x) == Append(dq, x)

deque_append(dq, x) ==
    IF Len(dq) >= MaxHistory THEN Append(Tail(dq), x) ELSE Append(dq, x)

can_undo(us) == Len(us) > 0
can_redo(rs) == Len(rs) > 0

Front(s) == SubSeq(s, 1, Len(s) - 1)
Last(s) == s[Len(s)]

add_state_keep_redo(hp, us, rs, img) ==
    LET c == QImage_copy(hp, img)
    IN  [heap |-> c.heap, undo_stack |-> deque_append(us, c.id), redo_stack |-> rs]

add_state_alias(hp, us, rs, img) ==
    [heap |-> hp, undo_stack |-> deque_append(us, img), redo_stack |-> << >>]

add_state(hp, us, rs, img) ==
    LET c == QImage_copy(hp, img)
    IN  [heap |-> c.heap,
         undo_stack |-> deque_append(us, c.id),
         redo_stack |-> << >>]

undo_push_first(hp, us, rs, cur) ==
    LET c == QImage_copy(hp, cur)
    IN  IF ~can_undo(us)
        THEN [heap |-> c.heap, undo_stack |-> us, redo_stack |-> deque_append(rs, c.id),
              ret |-> None]
        ELSE [heap |-> c.heap, undo_stack |-> Front(us),
              redo_stack |-> deque_append(rs, c.id), ret |-> Last(us)]

undo_popleft(hp, us, rs, cur) ==
    IF ~can_undo(us)
    THEN [heap |-> hp, undo_stack |-> us, redo_stack |-> rs, ret |-> None]
    ELSE LET c == QImage_copy(hp, cur)
         IN  [heap |-> c.heap,
              undo_stack |-> Tail(us),
              redo_stack |-> deque_append(rs, c.id),
              ret |-> Head(us)]

undo(hp, us, rs, cur) ==
    IF ~can_undo(us)
    THEN [heap |-> hp, undo_stack |-> us, redo_stack |-> rs, ret |-> None]
    ELSE LET c == QImage_copy(hp, cur)
         IN  [heap |-> c.heap,
              undo_stack |-> Front(us),
              redo_stack |-> deque_append(rs, c.id),
              ret |-> Last(us)]

redo_keep_entry(hp, us, rs, cur) ==
    IF ~can_redo(rs)
    THEN [heap |-> hp, undo_stack |-> us, redo_stack |-> rs, ret |-> None]
    ELSE LET c == QImage_copy(hp, cur)
         IN  [heap |-> c.heap,
              undo_stack |-> deque_append(us, c.id),
              redo_stack |-> rs,
              ret |-> Last(rs)]

redo(hp, us, rs, cur) ==
    IF ~can_redo(rs)
    THEN [heap |-> hp, undo_stack |-> us, redo_stack |-> rs, ret |-> None]
    ELSE LET c == QImage_copy(hp, cur)
         IN  [heap |-> c.heap,
              undo_stack |-> deque_append(us, c.id),
              redo_stack |-> Front(rs),
              ret |-> Last(rs)]

clear_undo_only(hp, us, rs) ==
    [heap |-> hp, undo_stack |-> << >>, redo_stack |-> rs]

clear(hp, us, rs) ==
    [heap |-> hp, undo_stack |-> << >>, redo_stack |-> << >>]

(***************************************************************************)
(* QPainter on an image, antialiasing off, with                            *)
(* QPen(color, size, SolidLine, RoundCap, RoundJoin).  The rasteriser      *)
(* belongs to Qt; it is modelled as: a pen of width 1 covers the pixel of  *)
(* the point, a wider pen covers the pixels whose centre lies within       *)
(* size / 2 of the point, a line covers what the pen covers along it, and  *)
(* everything is clipped to the image.                                     *)
(***************************************************************************)
Abs(n) == IF n < 0 THEN 0 - n ELSE n
Max2(a, b) == IF a >= b THEN a ELSE b
Min2(a, b) == IF a <= b THEN a ELSE b
\* num / den rounded to the nearest integer, den > 0
RoundDiv(num, den) == (2 * num + den) \div (2 * den)

PenCovers(c, p, size) ==
    IF size <= 1
    THEN c = p
    ELSE (2 * (c[1] - p[1]) + 1) * (2 * (c[1] - p[1]) + 1)
         + (2 * (c[2] - p[2]) + 1) * (2 * (c[2] - p[2]) + 1) <= size * size

LinePoints(a, b) ==
    LET dx == b[1] - a[1]
        dy == b[2] - a[2]
        n  == Max2(Abs(dx), Abs(dy))
    IN  IF n = 0 THEN {a}
        ELSE {<<a[1] + RoundDiv(i * dx, n), a[2] + RoundDiv(i * dy, n)>> : i \in 0..n}

Cells(img) == {CellOf(img, i) : i \in 1..(img.w * img.h)}

PaintCells(img, cells, color) ==
    [img EXCEPT !.px = [i \in 1..(img.w * img.h) |->
                          IF CellOf(img, i) \in cells THEN PenWord(color) ELSE img.px[i]]]

\* painter.drawPoint(p)
drawPoint(img, p, color, size) ==
    PaintCells(img, {c \in Cells(img) : PenCovers(c, p, size)}, color)

\* painter.drawLine(a, b)
drawLine(img, a, b, color, size) ==
    PaintCells(img, {c \in Cells(img) : \E q \in LinePoints(a, b) : PenCovers(c, q, size)},
               color)

(***************************************************************************)
(* tools.py.  A tool is the record of its attributes; the three tools are  *)
(* the three members of the enum Tools, one instance each.  _canvas is set *)
(* together with _drawing by activate and there is one canvas, so a tool   *)
(* with _drawing set has its _canvas set.                                  *)
(***************************************************************************)
ToolNames == {"BRUSH", "ERASER", "FILL"}

BaseTool_init(size, color) ==
    [size |-> size, color |-> color, drawing |-> FALSE, last_image_pos |-> <<0, 0>>]

BaseTool_activate(t, image_pos) ==
    [t EXCEPT !.last_image_pos = image_pos, !.drawing = TRUE]

deactivate(t) == [t EXCEPT !.drawing = FALSE]

BrushTool_activate(t, img, image_pos) ==
    [tool |-> BaseTool_activate(t, image_pos),
     img  |-> drawPoint(img, image_pos, t.color, t.size),
     pops |-> 0]

BrushTool_move(t, img, image_pos) ==
    IF ~t.drawing
    THEN [tool |-> t, img |-> img]
    ELSE [tool |-> [t EXCEPT !.last_image_pos = image_pos],
          img  |-> drawLine(img, t.last_image_pos, image_pos, t.color, t.size)]

EraserTool_activate(t, img, image_pos) ==
    [tool |-> BaseTool_activate(t, image_pos),
     img  |-> drawPoint(img, image_pos, t.color, t.size),
     pops |-> 0]

EraserTool_move(t, img, image_pos) ==
    IF ~t.drawing
    THEN [tool |-> t, img |-> img]
    ELSE [tool |-> [t EXCEPT !.last_image_pos = image_pos],
          img  |-> drawLine(img, t.last_image_pos, image_pos, t.color, t.size)]

Neighbours_diagonal(p) ==
    << <<p[1] - 1, p[2]>>, <<p[1] + 1, p[2]>>, <<p[1], p[2] - 1>>, <<p[1], p[2] + 1>>,
       <<p[1] - 1, p[2] - 1>>, <<p[1] + 1, p[2] + 1>> >>

\* the neighbours in the order the loop visits them: West, East, North, South
Neighbours(p) ==
    << <<p[1] - 1, p[2]>>, <<p[1] + 1, p[2]>>, <<p[1], p[2] - 1>>, <<p[1], p[2] + 1>> >>

\* the for loop over the neighbours of one dequeued pixel
RECURSIVE FillNeighbours(_, _, _, _, _)
FillNeighbours(img, q, ns, target_rgb, fill_rgb) ==
    IF ns = << >>
    THEN [img |-> img, q |-> q]
    ELSE LET n == Head(ns)
         IN  IF Contains(img, n) /\ img.px[Offset(img, n)] = target_rgb
             THEN FillNeighbours([img EXCEPT !.px[Offset(img, n)] = fill_rgb],
                                 Append(q, n), Tail(ns), target_rgb, fill_rgb)
             ELSE FillNeighbours(img, q, Tail(ns), target_rgb, fill_rgb)

\* a loop that paints a pixel when it is dequeued instead of before it is enqueued
RECURSIVE FillLoop_paint_on_dequeue(_, _, _, _, _)
FillLoop_paint_on_dequeue(img, q, popped, target_rgb, fill_rgb) ==
    IF q = << >>
    THEN [img |-> img, pops |-> Len(popped), popped |-> popped]
    ELSE LET p    == Head(q)
             img2 == [img EXCEPT !.px[Offset(img, p)] = fill_rgb]
             ns   == SelectSeq(Neighbours(p),
                               LAMBDA n : Contains(img2, n) /\ img2.px[Offset(img2, n)] = target_rgb)
         IN  FillLoop_paint_on_dequeue(img2, Tail(q) \o ns, Append(popped, p),
                                       target_rgb, fill_rgb)

\* while q: p = q.popleft(); ...   popped lists the pixels dequeued, in order;
\* every pixel enqueued is dequeued before the loop ends
RECURSIVE FillLoop(_, _, _, _, _)
FillLoop(img, q, popped, target_rgb, fill_rgb) ==
    IF q = << >>
    THEN [img |-> img, pops |-> Len(popped), popped |-> popped]
    ELSE LET r == FillNeighbours(img, Tail(q), Neighbours(Head(q)), target_rgb, fill_rgb)
         IN  FillLoop(r.img, r.q, Append(popped, Head(q)), target_rgb, fill_rgb)

FillTool_activate_stays_active(t, img, image_pos) ==
    LET on == BaseTool_activate(t, image_pos)
    IN  IF ~Contains(img, image_pos)
        THEN [tool |-> on, img |-> img, pops |-> 0, popped |-> << >>]
        ELSE LET target_rgb == QImage_pixel(img, image_pos)
                 fill_rgb   == t.color
             IN  IF target_rgb = fill_rgb
                 THEN [tool |-> on, img |-> img, pops |-> 0, popped |-> << >>]
                 ELSE LET r == FillLoop([img EXCEPT !.px[Offset(img, image_pos)] = fill_rgb],
                                        <<image_pos>>, << >>, target_rgb, fill_rgb)
                      IN  [tool |-> deactivate(on), img |-> r.img, pops |-> r.pops,
                           popped |-> r.popped]

FillTool_activate_no_final_deactivate(t, img, image_pos) ==
    LET on == BaseTool_activate(t, image_pos)
    IN  IF ~Contains(img, image_pos)
        THEN [tool |-> deactivate(on), img |-> img, pops |-> 0, popped |-> << >>]
        ELSE LET target_rgb == QImage_pixel(img, image_pos)
                 fill_rgb   == t.color
             IN  IF target_rgb = fill_rgb
                 THEN [tool |-> deactivate(on), img |-> img, pops |-> 0, popped |-> << >>]
                 ELSE LET r == FillLoop([img EXCEPT !.px[Offset(img, image_pos)] = fill_rgb],
                                        <<image_pos>>, << >>, target_rgb, fill_rgb)
                      IN  [tool |-> on, img |-> r.img, pops |-> r.pops,
                           popped |-> r.popped]

FillTool_activate(t, img, image_pos) ==
    LET on == BaseTool_activate(t, image_pos)
    IN  IF ~Contains(img, image_pos)
        THEN [tool |-> deactivate(on), img |-> img, pops |-> 0, popped |-> << >>]
        ELSE LET target_rgb == QImage_pixel(img, image_pos)
                 fill_rgb   == t.color
             IN  IF target_rgb = fill_rgb
                 THEN [tool |-> deactivate(on), img |-> img, pops |-> 0, popped |-> << >>]
                 ELSE LET r == FillLoop([img EXCEPT !.px[Offset(img, image_pos)] = fill_rgb],
                                        <<image_pos>>, << >>, target_rgb, fill_rgb)
                      IN  [tool |-> deactivate(on), img |-> r.img, pops |-> r.pops,
                           popped |-> r.popped]

FillTool_move(t, img, image_pos) == [tool |-> t, img |-> img]

\* current_tool.activate / current_tool.move: dispatch on the instance's class
Tool_activate(name, t, img, image_pos) ==
    CASE name = "BRUSH"  -> BrushTool_activate(t, img, image_pos)
      [] name = "ERASER" -> EraserTool_activate(t, img, image_pos)
      [] name = "FILL"   -> FillTool_activate(t, img, image_pos)

Tool_move(name, t, img, image_pos) ==
    CASE name = "BRUSH"  -> BrushTool_move(t, img, image_pos)
      [] name = "ERASER" -> EraserTool_move(t, img, image_pos)
      [] name = "FILL"   -> FillTool_move(t, img, image_pos)

\* the members of the enum Tools as the module creates them
Tools_enum ==
    [n \in ToolNames |->
        CASE n = "BRUSH"  -> BaseTool_init(2, Black)
          [] n = "ERASER" -> BaseTool_init(10, White)
          [] n = "FILL"   -> BaseTool_init(1, Black)]

(***************************************************************************)
(* State.  The program's: the image objects, the Canvas attributes, the    *)
(* HistoryManager's two deques, the three tool instances, the enabled      *)
(* flags of PaintApp's undo and redo actions, and the mouse buttons held   *)
(* (what event.buttons() reports).  The rest observes a run: `last`        *)
(* describes the last handler run (what it returned, whether it recorded   *)
(* over a redo stack that held an image, whether it emptied two deques     *)
(* that both held one), `ret` is what                                      *)
(* HistoryManager last returned to a direct caller, `hist_obs`,            *)
(* `fill_run`, `gest` and `switched` remember what a property compares     *)
(* with.                                                                   *)
(***************************************************************************)
VARIABLES heap, image, image_width, image_height, image_path, undo_stack, redo_stack,
          drawing, panning, spacebar_panning_active, last_pan_point,
          zoom_factor, pan_offset, transform,
          tool_size, brush_color, current_tool, tools,
          undo_action, redo_action,
          buttons, ret, last, hist_obs, fill_run, gest, switched, steps

canvas_vars == <<heap, image, image_width, image_height, image_path, undo_stack, redo_stack,
                 drawing, panning, spacebar_panning_active, last_pan_point,
                 zoom_factor, pan_offset, transform,
                 tool_size, brush_color, current_tool, tools>>
app_vars == <<undo_action, redo_action>>
vars == <<canvas_vars, app_vars, buttons, ret, last, hist_obs, fill_run, gest, switched, steps>>

(***************************************************************************)
(* drawing.py: Canvas.  A handler is an operator from the Canvas (the      *)
(* record of its attributes, with the objects it reaches) to the Canvas it *)
(* leaves; `emits` counts the historyChanged signals the handler emitted,  *)
(* `records` its calls of HistoryManager.add_state, and `returns` is the   *)
(* value the handler returns ("None" where it has no return statement).    *)
(* historyChanged is connected to PaintApp._update_history_actions, which  *)
(* runs inside the emit: the record carries the two flags it sets.         *)
(***************************************************************************)
\* image_path = None
NoPath == ""

\* A zoom factor is the exact fraction n / d: every factor the program computes
\* is a product of 1.15 = 23/20 and 0.85 = 17/20 from 1.0 or from a clamp.
Ratio(n, d) == [n |-> n, d |-> d]
RatMul(a, b) == Ratio(a.n * b.n, a.d * b.d)
RatLess(a, b) == a.n * b.d < b.n * a.d
RatMax(a, b) == IF RatLess(a, b) THEN b ELSE a
RatMin(a, b) == IF RatLess(b, a) THEN b ELSE a
ZoomOne == Ratio(1, 1)
\* qRound(num / den), den > 0: to the nearest integer, a half away from zero
qRound(num, den) ==
    IF num >= 0 THEN (2 * num + den) \div (2 * den)
    ELSE 0 - ((2 * (0 - num) + den) \div (2 * den))

Self ==
    [heap |-> heap, image |-> image,
     image_width |-> image_width, image_height |-> image_height,
     image_path |-> image_path,
     undo_stack |-> undo_stack, redo_stack |-> redo_stack,
     undo_action |-> undo_action, redo_action |-> redo_action,
     drawing |-> drawing, panning |-> panning,
     spacebar_panning_active |-> spacebar_panning_active,
     last_pan_point |-> last_pan_point,
     zoom_factor |-> zoom_factor, pan_offset |-> pan_offset, transform |-> transform,
     tool_size |-> tool_size, brush_color |-> brush_color,
     current_tool |-> current_tool, tools |-> tools,
     emits |-> 0, records |-> 0, returns |-> "None"]

\* _update_transform: translate(pan_offset) then scale(zoom_factor)
update_transform(c) ==
    [c EXCEPT !.transform = [m |-> c.zoom_factor, dx |-> c.pan_offset[1], dy |-> c.pan_offset[2]]]

\* self.transform.inverted()[0].map(pos), rounded to a QPoint
MapInverse(tr, pos) ==
    << qRound((pos[1] - tr.dx) * tr.m.d, tr.m.n), qRound((pos[2] - tr.dy) * tr.m.d, tr.m.n) >>

\* PaintApp._update_history_actions
update_history_actions(c) ==
    [c EXCEPT !.undo_action = can_undo(c.undo_stack),
              !.redo_action = can_redo(c.redo_stack)]

\* self.historyChanged.emit(): the connected slot runs before emit returns
historyChanged_emit(c) == [update_history_actions(c) EXCEPT !.emits = @ + 1]

add_history_state(c) ==
    LET h == add_state(c.heap, c.undo_stack, c.redo_stack, c.image)
    IN  historyChanged_emit(
          [c EXCEPT !.heap = h.heap, !.undo_stack = h.undo_stack,
                    !.redo_stack = h.redo_stack, !.records = @ + 1])

Blit_blank(w, h, old) == QImage_filled(w, h, White)

\* painter.drawImage(0, 0, old) on a new white w x h image
Blit(w, h, old) ==
    LET new == QImage_filled(w, h, White)
    IN  [new EXCEPT !.px = [i \in 1..(w * h) |->
                              IF Contains(old, CellOf(new, i))
                              THEN old.px[Offset(old, CellOf(new, i))]
                              ELSE new.px[i]]]

set_size(c, w, h) ==
    IF w < 1 \/ h < 1
    THEN c
    ELSE LET c1 == add_history_state(c)
             id == NewId(c1.heap)
         IN  update_transform(
               [c1 EXCEPT !.heap = [c1.heap EXCEPT ![id] = Blit(w, h, c1.heap[c1.image])],
                          !.image = id,
                          !.image_width = w, !.image_height = h,
                          !.zoom_factor = ZoomOne, !.pan_offset = <<0, 0>>])

\* new_image: nothing looks at w or h before the QImage is built
new_image(c, w, h, color) ==
    LET id == NewId(c.heap)
        c1 == [c EXCEPT !.heap[id] = QImage_filled(w, h, color),
                        !.image = id,
                        !.image_width = w, !.image_height = h,
                        !.image_path = NoPath]
        k  == clear(c1.heap, c1.undo_stack, c1.redo_stack)
    IN  historyChanged_emit(
          [c1 EXCEPT !.heap = k.heap, !.undo_stack = k.undo_stack,
                     !.redo_stack = k.redo_stack])

\* What QImage.load(file_path) finds: NoFile where the load fails, else the
\* decoded image, whose words may carry any alpha.
NoFile == NoImage
\* convertToFormat(Format_RGB32): the alpha byte of every word becomes 0xff
convertToFormat_RGB32(img) ==
    [img EXCEPT !.px = [i \in 1..(img.w * img.h) |-> [img.px[i] EXCEPT ![1] = 255]]]

load_image_clear_first(c, file_path, file) ==
    LET k  == clear(c.heap, c.undo_stack, c.redo_stack)
        c0 == historyChanged_emit(
                [c EXCEPT !.heap = k.heap, !.undo_stack = k.undo_stack,
                          !.redo_stack = k.redo_stack, !.image_path = file_path])
    IN  IF file = NoFile
        THEN [c0 EXCEPT !.returns = "False"]
        ELSE LET id == NewId(c0.heap)
             IN  update_transform(
                   [c0 EXCEPT !.heap[id] = convertToFormat_RGB32(file),
                              !.image = id,
                              !.image_width = file.w, !.image_height = file.h,
                              !.zoom_factor = ZoomOne, !.pan_offset = <<0, 0>>,
                              !.returns = "True"])

load_image(c, file_path, file) ==
    IF file = NoFile
    THEN [c EXCEPT !.returns = "False"]
    ELSE LET id == NewId(c.heap)
             c1 == [c EXCEPT !.heap[id] = convertToFormat_RGB32(file),
                             !.image = id,
                             !.image_width = file.w, !.image_height = file.h,
                             !.image_path = file_path]
             k  == clear(c1.heap, c1.undo_stack, c1.redo_stack)
             c2 == historyChanged_emit(
                     [c1 EXCEPT !.heap = k.heap, !.undo_stack = k.undo_stack,
                                !.redo_stack = k.redo_stack])
         IN  update_transform(
               [c2 EXCEPT !.zoom_factor = ZoomOne, !.pan_offset = <<0, 0>>,
                          !.returns = "True"])

\* self.image.save(path): the file system decides (writes); a null image is never written
QImage_save(img, path, writes) == writes /\ img # NullImage

\* file_path: what QFileDialog.getSaveFileName returned, "" when the user cancelled
save_image_as(c, file_path, writes) ==
    IF file_path = NoPath
    THEN [c EXCEPT !.returns = "True"]
    ELSE LET c1 == [c EXCEPT !.image_path = file_path]
         IN  [c1 EXCEPT !.returns =
                IF QImage_save(c1.heap[c1.image], c1.image_path, writes) THEN "True" ELSE "False"]

save_image(c, file_path, writes) ==
    IF c.image_path # NoPath
    THEN [c EXCEPT !.returns =
            IF QImage_save(c.heap[c.image], c.image_path, writes) THEN "True" ELSE "False"]
    ELSE save_image_as(c, file_path, writes)

Canvas_undo(c) ==
    LET r == undo(c.heap, c.undo_stack, c.redo_stack, c.image)
        c1 == [c EXCEPT !.heap = r.heap, !.undo_stack = r.undo_stack,
                        !.redo_stack = r.redo_stack]
    IN  IF r.ret # None
        THEN historyChanged_emit(
               [c1 EXCEPT !.image = r.ret,
                          !.image_width = r.heap[r.ret].w,
                          !.image_height = r.heap[r.ret].h])
        ELSE c1

Canvas_redo_silent(c) ==
    LET r == redo(c.heap, c.undo_stack, c.redo_stack, c.image)
        c1 == [c EXCEPT !.heap = r.heap, !.undo_stack = r.undo_stack,
                        !.redo_stack = r.redo_stack]
    IN  IF r.ret # None THEN [c1 EXCEPT !.image = r.ret] ELSE c1

Canvas_redo(c) ==
    LET r == redo(c.heap, c.undo_stack, c.redo_stack, c.image)
        c1 == [c EXCEPT !.heap = r.heap, !.undo_stack = r.undo_stack,
                        !.redo_stack = r.redo_stack]
    IN  IF r.ret # None
        THEN historyChanged_emit([c1 EXCEPT !.image = r.ret])
        ELSE c1

set_tool_no_deactivate(c, tool) ==
    LET c2 == [c EXCEPT !.current_tool = tool, !.tools[tool].size = c.tool_size]
    IN  IF tool \in {"BRUSH", "FILL"}
        THEN [c2 EXCEPT !.tools[tool].color = c2.brush_color]
        ELSE c2

set_tool(c, tool) ==
    LET c1 == IF c.drawing
              THEN [c EXCEPT !.tools[c.current_tool] = deactivate(@), !.drawing = FALSE]
              ELSE c
        c2 == [c1 EXCEPT !.current_tool = tool, !.tools[tool].size = c1.tool_size]
    IN  IF tool \in {"BRUSH", "FILL"}
        THEN [c2 EXCEPT !.tools[tool].color = c2.brush_color]
        ELSE c2

set_brush_color_any_tool(c, color) ==
    [c EXCEPT !.brush_color = color, !.tools[c.current_tool].color = color]

set_brush_color(c, color) ==
    IF c.current_tool \in {"BRUSH", "FILL"}
    THEN [c EXCEPT !.brush_color = color, !.tools[c.current_tool].color = color]
    ELSE [c EXCEPT !.brush_color = color]

\* set_tool_size: every tool has a size attribute
set_tool_size(c, size) ==
    [c EXCEPT !.tool_size = Max2(1, size), !.tools[c.current_tool].size = Max2(1, size)]

mousePressEvent_record_after(c, button, pos) ==
    IF button = "Middle" \/ (c.spacebar_panning_active /\ button = "Left")
    THEN [c EXCEPT !.panning = TRUE, !.last_pan_point = pos]
    ELSE IF button = "Left"
    THEN LET image_pos == MapInverse(c.transform, pos)
             a == Tool_activate(c.current_tool, c.tools[c.current_tool],
                                c.heap[c.image], image_pos)
             c1 == [c EXCEPT !.heap[c.image] = a.img, !.tools[c.current_tool] = a.tool]
             c2 == add_history_state(c1)
         IN  IF a.tool.drawing THEN [c2 EXCEPT !.drawing = TRUE] ELSE c2
    ELSE c

mousePressEvent(c, button, pos) ==
    IF button = "Middle" \/ (c.spacebar_panning_active /\ button = "Left")
    THEN [c EXCEPT !.panning = TRUE, !.last_pan_point = pos]
    ELSE IF button = "Left"
    THEN LET c1 == add_history_state(c)
             image_pos == MapInverse(c1.transform, pos)
             a == Tool_activate(c1.current_tool, c1.tools[c1.current_tool],
                                c1.heap[c1.image], image_pos)
             c2 == [c1 EXCEPT !.heap[c1.image] = a.img, !.tools[c1.current_tool] = a.tool]
         IN  IF a.tool.drawing THEN [c2 EXCEPT !.drawing = TRUE] ELSE c2
    ELSE c

mouseMoveEvent(c, held, pos) ==
    IF c.drawing /\ "Left" \in held
    THEN LET image_pos == MapInverse(c.transform, pos)
             a == Tool_move(c.current_tool, c.tools[c.current_tool],
                            c.heap[c.image], image_pos)
         IN  [c EXCEPT !.heap[c.image] = a.img, !.tools[c.current_tool] = a.tool]
    ELSE IF c.panning /\ held \cap {"Left", "Middle"} # {}
    THEN update_transform(
           [c EXCEPT !.pan_offset = << @[1] + pos[1] - c.last_pan_point[1],
                                       @[2] + pos[2] - c.last_pan_point[2] >>,
                     !.last_pan_point = pos])
    ELSE c

mouseReleaseEvent(c, button) ==
    IF button = "Left"
    THEN IF c.panning
         THEN [c EXCEPT !.panning = FALSE]
         ELSE IF c.drawing
         THEN [c EXCEPT !.tools[c.current_tool] = deactivate(@), !.drawing = FALSE]
         ELSE c
    ELSE IF button = "Middle"
    THEN [c EXCEPT !.panning = FALSE]
    ELSE c

\* wheelEvent: delta is event.angleDelta().y(), view_pos is
\* event.position().toPoint(); QPoint * float rounds each coordinate (qRound)
zoom_in_factor == Ratio(23, 20)
zoom_out_factor == Ratio(17, 20)
ZoomMin == Ratio(1, 10)
ZoomMax == Ratio(10, 1)

wheelEvent_no_clamp(c, delta, view_pos) ==
    LET z2 == IF delta > 0 THEN RatMul(c.zoom_factor, zoom_in_factor)
              ELSE RatMul(c.zoom_factor, zoom_out_factor)
        image_pos_before_zoom == MapInverse(c.transform, view_pos)
        scaled == << qRound(image_pos_before_zoom[1] * z2.n, z2.d),
                     qRound(image_pos_before_zoom[2] * z2.n, z2.d) >>
    IN  update_transform(
          [c EXCEPT !.zoom_factor = z2,
                    !.pan_offset = << view_pos[1] - scaled[1], view_pos[2] - scaled[2] >>])

wheelEvent(c, delta, view_pos) ==
    LET z1 == IF delta > 0 THEN RatMul(c.zoom_factor, zoom_in_factor)
              ELSE RatMul(c.zoom_factor, zoom_out_factor)
        z2 == RatMax(ZoomMin, RatMin(z1, ZoomMax))
        image_pos_before_zoom == MapInverse(c.transform, view_pos)
        scaled == << qRound(image_pos_before_zoom[1] * z2.n, z2.d),
                     qRound(image_pos_before_zoom[2] * z2.n, z2.d) >>
    IN  update_transform(
          [c EXCEPT !.zoom_factor = z2,
                    !.pan_offset = << view_pos[1] - scaled[1], view_pos[2] - scaled[2] >>])

\* the Space key, not auto-repeated
keyPressEvent(c) == [c EXCEPT !.spacebar_panning_active = TRUE]
keyReleaseEvent(c) == [c EXCEPT !.spacebar_panning_active = FALSE, !.panning = FALSE]

(***************************************************************************)
(* The Canvas as PaintApp and Qt drive it.                                 *)
(***************************************************************************)
Buttons == {"Left", "Middle"}
\* positions of mouse events in the widget (a pan or a resize puts them off the image)
Positions == (0..(MaxW - 1)) \X {0}
\* sizes given to set_size, the rejected ones among them
Widths == 0..MaxW
Heights == {0, 1}

\* the references the Canvas and its HistoryManager hold, and what a caller was returned
Refs(c, r) == <<c.image>> \o c.undo_stack \o c.redo_stack \o (IF r = None THEN << >> ELSE <<r>>)

\* Canvas.__init__ on an image of w x h (800 x 600 in the program)
Canvas_init(w, h) ==
    [heap |-> [i \in ImgIds |-> IF i = 1 THEN QImage_filled(w, h, White) ELSE NoImage],
     image |-> 1,
     image_width |-> w, image_height |-> h,
     image_path |-> NoPath,
     undo_stack |-> << >>, redo_stack |-> << >>,
     undo_action |-> FALSE, redo_action |-> FALSE,
     drawing |-> FALSE,
     tool_size |-> 2, brush_color |-> Black,
     current_tool |-> "BRUSH",
     tools |-> [Tools_enum EXCEPT !["BRUSH"].size = 2, !["BRUSH"].color = Black],
     zoom_factor |-> ZoomOne, pan_offset |-> <<0, 0>>,
     panning |-> FALSE, spacebar_panning_active |-> FALSE,
     last_pan_point |-> <<0, 0>>,
     transform |-> [m |-> ZoomOne, dx |-> 0, dy |-> 0],
     emits |-> 0, records |-> 0, returns |-> "None"]

NoGesture == [phase |-> "none", moved |-> FALSE, before |-> NoImage, after |-> NoImage]

\* the program starts as the Canvas c, no button held, nothing observed yet
\* what a caller of the HistoryManager can see of it and of its own buffer:
\* the images of the undo deque, of the redo deque, and the buffer
NoSnapshot == [u |-> << >>, r |-> << >>, img |-> NoImage]
\* no undo is being followed
NoTrip == [phase |-> "none", bases |-> << >>, back |-> NoSnapshot, redos |-> 0,
           moved |-> "none"]

Start(c) ==
    /\ heap = c.heap
    /\ image = c.image
    /\ image_width = c.image_width
    /\ image_height = c.image_height
    /\ image_path = c.image_path
    /\ undo_action = c.undo_action
    /\ redo_action = c.redo_action
    /\ undo_stack = c.undo_stack
    /\ redo_stack = c.redo_stack
    /\ drawing = c.drawing
    /\ tool_size = c.tool_size
    /\ brush_color = c.brush_color
    /\ current_tool = c.current_tool
    /\ tools = c.tools
    /\ zoom_factor = c.zoom_factor
    /\ pan_offset = c.pan_offset
    /\ panning = c.panning
    /\ spacebar_panning_active = c.spacebar_panning_active
    /\ last_pan_point = c.last_pan_point
    /\ transform = c.transform
    /\ buttons = {}
    /\ ret = None
    /\ last = [op |-> "init", records |-> 0, emits |-> 0, had_redo |-> FALSE,
               returns |-> "None", emptied |-> FALSE, at |-> <<0, 0>>]
    /\ hist_obs = [rec |-> NoImage, cur |-> NoImage, run |-> << >>, count |-> 0, seq |-> "none",
                   trip |-> NoTrip]
    /\ fill_run = [before |-> NoImage, at |-> <<0, 0>>, pops |-> 0, popped |-> << >>,
                   fills |-> 0]
    /\ gest = NoGesture
    /\ switched = FALSE
    /\ steps = 0

Init == Start(Canvas_init(MaxW, 1))

\* the handler has returned: the Canvas is as c says (at: where a wheel event
\* was, or the size a resize was given)
CommitAt(c, op, at) ==
    /\ steps < MaxSteps
    /\ steps' = steps + 1
    /\ heap' = Collect(c.heap, Refs(c, None))
    /\ image' = Renamed(Refs(c, None), c.image)
    /\ image_width' = c.image_width
    /\ image_height' = c.image_height
    /\ image_path' = c.image_path
    /\ undo_action' = c.undo_action
    /\ redo_action' = c.redo_action
    /\ undo_stack' = RenamedSeq(Refs(c, None), c.undo_stack)
    /\ redo_stack' = RenamedSeq(Refs(c, None), c.redo_stack)
    /\ drawing' = c.drawing
    /\ panning' = c.panning
    /\ spacebar_panning_active' = c.spacebar_panning_active
    /\ last_pan_point' = c.last_pan_point
    /\ zoom_factor' = c.zoom_factor
    /\ pan_offset' = c.pan_offset
    /\ transform' = c.transform
    /\ tool_size' = c.tool_size
    /\ brush_color' = c.brush_color
    /\ current_tool' = c.current_tool
    /\ tools' = c.tools
    /\ ret' = None
    /\ last' = [op |-> op, records |-> c.records, emits |-> c.emits,
                had_redo |-> c.records > 0 /\ can_redo(redo_stack),
                returns |-> c.returns,
                emptied |-> /\ can_undo(undo_stack) /\ can_redo(redo_stack)
                            /\ ~can_undo(c.undo_stack) /\ ~can_redo(c.redo_stack),
                at |-> at]
    /\ UNCHANGED <<hist_obs, fill_run>>

Commit(c, op) == CommitAt(c, op, <<0, 0>>)

\* a left press without the pan modifier starts a draw gesture
IsPanPress(button) == button = "Middle" \/ (spacebar_panning_active /\ button = "Left")

MousePress(button, pos) ==
    /\ button \notin buttons
    /\ buttons' = buttons \cup {button}
    /\ Commit(mousePressEvent(Self, button, pos),
              IF IsPanPress(button) THEN "press_pan" ELSE "press_draw")
    /\ gest' = IF IsPanPress(button) THEN NoGesture
               ELSE [phase |-> "stroke", moved |-> FALSE, before |-> heap[image],
                     after |-> NoImage]
    /\ switched' = IF button = "Left" THEN FALSE ELSE switched

MouseMove(pos) ==
    /\ Commit(mouseMoveEvent(Self, buttons, pos), "move")
    /\ gest' = IF gest.phase = "stroke" /\ "Left" \in buttons
               THEN [gest EXCEPT !.moved = TRUE]
               ELSE NoGesture
    /\ UNCHANGED <<buttons, switched>>

MouseRelease(button) ==
    /\ button \in buttons
    /\ buttons' = buttons \ {button}
    /\ Commit(mouseReleaseEvent(Self, button), "release")
    /\ gest' = IF gest.phase = "stroke" /\ button = "Left"
               THEN [gest EXCEPT !.phase = "done", !.after = heap'[image']]
               ELSE NoGesture
    /\ UNCHANGED switched

KeyPress ==
    /\ ~spacebar_panning_active
    /\ Commit(keyPressEvent(Self), "key_press")
    /\ gest' = NoGesture
    /\ UNCHANGED <<buttons, switched>>

KeyRelease ==
    /\ spacebar_panning_active
    /\ Commit(keyReleaseEvent(Self), "key_release")
    /\ gest' = NoGesture
    /\ UNCHANGED <<buttons, switched>>

Undo ==
    /\ Commit(Canvas_undo(Self), "undo")
    /\ gest' = IF gest.phase = "done" THEN [gest EXCEPT !.phase = "undone"] ELSE NoGesture
    /\ UNCHANGED <<buttons, switched>>

Redo ==
    /\ Commit(Canvas_redo(Self), "redo")
    /\ gest' = IF gest.phase = "undone" THEN [gest EXCEPT !.phase = "redone"] ELSE NoGesture
    /\ UNCHANGED <<buttons, switched>>

SetTool(tool) ==
    /\ Commit(set_tool(Self, tool), "set_tool")
    /\ gest' = NoGesture
    /\ switched' = (drawing \/ switched)
    /\ UNCHANGED buttons

\* (`last.at` of an accepted resize is the size asked for)
SetSize(w, h) ==
    /\ IF w < 1 \/ h < 1
       THEN Commit(set_size(Self, w, h), "set_size_rejected")
       ELSE CommitAt(set_size(Self, w, h), "set_size", <<w, h>>)
    /\ gest' = NoGesture
    /\ UNCHANGED <<buttons, switched>>

Next ==
    \/ \E b \in Buttons, pos \in Positions : MousePress(b, pos)
    \/ \E pos \in Positions : MouseMove(pos)
    \/ \E b \in Buttons : MouseRelease(b)
    \/ KeyPress
    \/ KeyRelease
    \/ Undo
    \/ Redo
    \/ \E t \in ToolNames : SetTool(t)
    \/ \E w \in Widths, h \in Heights : SetSize(w, h)

Spec == Init /\ [][Next]_vars

(***************************************************************************)
(* The document's life: besides gestures, undo, redo and resizes, PaintApp *)
(* replaces the image (File > New, File > Open) and the wheel zooms.       *)
(* Canvas.new_image and Canvas.set_size are public: they are given any     *)
(* width and height, the non-positive ones among them.                     *)
(***************************************************************************)
\* the files File > Open is given: one that does not load, a one-pixel image,
\* and an image of full width whose pixels are half transparent
Files ==
    { <<"a.png", [w |-> 1, h |-> 1, px |-> <<Red>>]>>,
      <<"b.png", NoFile>>,
      <<"b.png", [w |-> MaxW, h |-> 1, px |-> [i \in 1..MaxW |-> qRgba(0, 0, 0, 128)]]>> }
\* event.angleDelta().y() of one notch of the wheel, either way
WheelDeltas == {0 - 120, 120}
\* what new_image is given: <<w, h, color>>, two of them with a size it should refuse
NewImages == { <<0, 1, Red>>, <<1, 0, Red>>, <<1, 1, White>>, <<MaxW, 1, Red>> }

NewImage(w, h, color) ==
    /\ Commit(new_image(Self, w, h, color),
              IF w < 1 \/ h < 1 THEN "new_image_invalid" ELSE "new_image")
    /\ gest' = NoGesture
    /\ UNCHANGED <<buttons, switched>>

LoadImage(file_path, file) ==
    /\ Commit(load_image(Self, file_path, file),
              IF file = NoFile THEN "load_image_failed" ELSE "load_image")
    /\ gest' = NoGesture
    /\ UNCHANGED <<buttons, switched>>

\* the exact zoom factor is followed through MaxWheel products from 1.0 or a clamp
Wheel(delta, pos) ==
    /\ zoom_factor.d < 20 ^ MaxWheel
    /\ CommitAt(wheelEvent(Self, delta, pos), "wheel", pos)
    /\ gest' = NoGesture
    /\ UNCHANGED <<buttons, switched>>

DocNext ==
    \/ \E b \in Buttons, pos \in Positions : MousePress(b, pos)
    \/ \E pos \in Positions : MouseMove(pos)
    \/ \E b \in Buttons : MouseRelease(b)
    \/ Undo
    \/ Redo
    \/ \E w \in Widths, h \in Heights : SetSize(w, h)
    \/ \E n \in NewImages : NewImage(n[1], n[2], n[3])
    \/ \E f \in Files : LoadImage(f[1], f[2])
    \/ \E delta \in WheelDeltas : Wheel(delta, <<0, 0>>)

SpecDoc == Init /\ [][DocNext]_vars

(***************************************************************************)
(* The view: the wheel zooms about the cursor, a middle-button drag pans,  *)
(* a resize, a new image and a loaded file come in between.  A run starts  *)
(* at zoom 1.0 or at one of the clamps, where 17 notches up (1.15^17 > 10) *)
(* or 15 notches down (0.85^15 < 0.1) at (0, 0) have brought the initial   *)
(* Canvas with its pan offset still (0, 0).                                *)
(***************************************************************************)
ViewPositions == (0..MaxPos) \X {0}

ViewInit ==
    \E z \in {ZoomOne, ZoomMin, ZoomMax} :
        Start(update_transform([Canvas_init(MaxW, 1) EXCEPT !.zoom_factor = z]))

ViewNext ==
    \/ \E delta \in WheelDeltas, pos \in ViewPositions : Wheel(delta, pos)
    \/ \E pos \in ViewPositions : MousePress("Middle", pos)
    \/ \E pos \in ViewPositions : MouseMove(pos)
    \/ MouseRelease("Middle")
    \/ SetSize(1, 1)
    \/ NewImage(1, 1, White)
    \/ \E f \in Files : LoadImage(f[1], f[2])

SpecView == ViewInit /\ [][ViewNext]_vars

(***************************************************************************)
(* The toolbar: the user picks tools, colours and sizes between and during *)
(* strokes.                                                                *)
(***************************************************************************)
\* the values the size slider is given (set_tool_size raises the first to 1)
ToolSizes == {0, 3}

SetBrushColor(color) ==
    /\ Commit(set_brush_color(Self, color), "set_brush_color")
    /\ gest' = NoGesture
    /\ UNCHANGED <<buttons, switched>>

SetToolSize(size) ==
    /\ Commit(set_tool_size(Self, size), "set_tool_size")
    /\ gest' = NoGesture
    /\ UNCHANGED <<buttons, switched>>

ToolsNext ==
    \/ \E t \in ToolNames : SetTool(t)
    \/ \E color \in Colors : SetBrushColor(color)
    \/ \E size \in ToolSizes : SetToolSize(size)
    \/ \E pos \in Positions : MousePress("Left", pos)
    \/ \E pos \in Positions : MouseMove(pos)
    \/ MouseRelease("Left")

SpecTools == Init /\ [][ToolsNext]_vars

(***************************************************************************)
(* The HistoryManager alone, under any caller: the caller holds a current  *)
(* buffer (`image`), changes it as it likes, passes it to add_state, undo  *)
(* and redo, and may take the image undo or redo returned as its current   *)
(* buffer (as Canvas does).  `hist_obs` remembers the value recorded by    *)
(* the last add_state (rec), the value of the buffer passed to the last    *)
(* undo that returned an image (cur), and the values recorded since the    *)
(* last operation that was not a record (run, the last MaxHistory of them; *)
(* count, how many, up to MaxHistory + 1); seq follows the calls through   *)
(* add_state ("rec"), then undo ("rec_undo"), then redo ("rec_undo_redo"). *)
(* trip follows the undos and redos whose returned image the caller makes  *)
(* its buffer before its next call: bases holds what the caller saw before *)
(* each undo not yet redone, back what it saw before the undo that the     *)
(* last redo took back, redos the redos in a row so taken back, and moved  *)
(* says whether the step was an undo or a redo that returned an image, or  *)
(* a step of the caller.                                                   *)
(***************************************************************************)
\* the values of the images a deque holds, oldest first
Values(hp, dq) == [i \in 1..Len(dq) |-> hp[dq[i]]]

HistSnapshot ==
    [u |-> Values(heap, undo_stack), r |-> Values(heap, redo_stack), img |-> heap[image]]

TripNoImage(t) ==
    IF t.phase \in {"undo_pending", "redo_pending"} THEN NoTrip ELSE [t EXCEPT !.moved = "none"]

TripUndo(t, snap) ==
    [phase |-> "undo_pending",
     bases |-> IF t.phase \in {"undone", "redone"} THEN Append(t.bases, snap) ELSE <<snap>>,
     back |-> NoSnapshot, redos |-> 0, moved |-> "undo"]

TripRedo(t) ==
    IF t.phase \in {"undone", "redone"} /\ t.bases # << >>
    THEN [t EXCEPT !.phase = "redo_pending", !.back = NoSnapshot, !.moved = "redo"]
    ELSE [NoTrip EXCEPT !.moved = "redo"]

TripAdopt(t) ==
    IF t.phase = "undo_pending" THEN [t EXCEPT !.phase = "undone", !.moved = "caller"]
    ELSE IF t.phase = "redo_pending"
    THEN [phase |-> "redone", bases |-> Front(t.bases), back |-> Last(t.bases),
          redos |-> t.redos + 1, moved |-> "caller"]
    ELSE [NoTrip EXCEPT !.moved = "caller"]
HistInit == Start(Canvas_init(1, 1))

hist_frame == <<image_width, image_height, image_path, undo_action, redo_action, drawing, panning, spacebar_panning_active,
                last_pan_point, zoom_factor, pan_offset, transform, tool_size,
                brush_color, current_tool, tools, buttons, fill_run, gest, switched, steps>>

\* the caller's references after a call: its buffer, the deques, the returned image
HistRefs(r, img, returned) ==
    <<img>> \o r.undo_stack \o r.redo_stack \o (IF returned = None THEN << >> ELSE <<returned>>)

\* the HistoryManager has returned r (and the image `returned`) to the caller
HistCommit(r, returned, op) ==
    LET refs == HistRefs(r, image, returned)
    IN  /\ heap' = Collect(r.heap, refs)
        /\ image' = Renamed(refs, image)
        /\ undo_stack' = RenamedSeq(refs, r.undo_stack)
        /\ redo_stack' = RenamedSeq(refs, r.redo_stack)
        /\ ret' = Renamed(refs, returned)
        /\ last' = [op |-> op, records |-> IF op = "add_state" THEN 1 ELSE 0, emits |-> 0,
                    had_redo |-> op = "add_state" /\ can_redo(redo_stack),
                    returns |-> "None", emptied |-> FALSE, at |-> <<0, 0>>]
        /\ UNCHANGED hist_frame

KeepLast(s, n) == IF Len(s) > n THEN SubSeq(s, Len(s) - n + 1, Len(s)) ELSE s

H_add_state ==
    /\ HistCommit(add_state(heap, undo_stack, redo_stack, image), None, "add_state")
    /\ hist_obs' = [hist_obs EXCEPT !.rec = heap[image],
                                    !.run = KeepLast(Append(@, heap[image]), MaxHistory),
                                    !.count = Min2(@ + 1, MaxHistory + 1),
                                    !.seq = "rec", !.trip = NoTrip]

H_undo ==
    LET r == undo(heap, undo_stack, redo_stack, image)
    IN  /\ HistCommit(r, r.ret, "undo")
        /\ hist_obs' = IF r.ret = None
                       THEN [hist_obs EXCEPT !.cur = NoImage, !.seq = "none",
                                             !.trip = TripNoImage(@)]
                       ELSE [hist_obs EXCEPT !.cur = heap[image], !.run = << >>, !.count = 0,
                                             !.seq = IF @ = "rec" THEN "rec_undo" ELSE "none",
                                             !.trip = TripUndo(@, HistSnapshot)]

H_redo ==
    LET r == redo(heap, undo_stack, redo_stack, image)
    IN  /\ HistCommit(r, r.ret, "redo")
        /\ hist_obs' = IF r.ret = None
                       THEN [hist_obs EXCEPT !.seq = "none", !.trip = TripNoImage(@)]
                       ELSE [hist_obs EXCEPT !.run = << >>, !.count = 0,
                                             !.seq = IF @ = "rec_undo" THEN "rec_undo_redo"
                                                     ELSE "none",
                                             !.trip = TripRedo(@)]

H_clear ==
    /\ HistCommit(clear(heap, undo_stack, redo_stack), None, "clear")
    /\ hist_obs' = [hist_obs EXCEPT !.run = << >>, !.count = 0, !.seq = "none",
                                    !.trip = NoTrip]

\* the caller paints on its buffer
CallerPaint(color) ==
    /\ heap[image].px[1] # color
    /\ heap' = [heap EXCEPT ![image].px[1] = color]
    /\ hist_obs' = [hist_obs EXCEPT !.trip = [NoTrip EXCEPT !.moved = "caller"]]
    /\ UNCHANGED <<image, undo_stack, redo_stack, ret, last, hist_frame>>

\* the caller makes the returned image its buffer
CallerAdopt ==
    /\ ret # None
    /\ LET r == [heap |-> heap, undo_stack |-> undo_stack, redo_stack |-> redo_stack]
           refs == HistRefs(r, ret, None)
       IN  /\ heap' = Collect(heap, refs)
           /\ image' = Renamed(refs, ret)
           /\ undo_stack' = RenamedSeq(refs, undo_stack)
           /\ redo_stack' = RenamedSeq(refs, redo_stack)
    /\ ret' = None
    /\ hist_obs' = [hist_obs EXCEPT !.trip = TripAdopt(@)]
    /\ UNCHANGED <<last, hist_frame>>

HistNext ==
    \/ H_add_state
    \/ H_undo
    \/ H_redo
    \/ H_clear
    \/ \E color \in Colors : CallerPaint(color)
    \/ CallerAdopt

SpecHistory == HistInit /\ [][HistNext]_vars

(***************************************************************************)
(* The fill tool alone: the Canvas holds any buffer of two colours, the    *)
(* fill tool is current with any colour, and FillTool.activate is run once *)
(* at any point, on or off the buffer.  `fill_run` remembers the buffer    *)
(* before the run, the point, and the pixels the loop dequeued, in order.  *)
(***************************************************************************)
FillImages ==
    UNION {{[w |-> w, h |-> h, px |-> px] : px \in [1..(w * h) -> {White, Black}]} :
           <<w, h>> \in (1..FillMaxW) \X (1..FillMaxH)}
FillPoints == (-1..FillMaxW) \X (-1..FillMaxH)

FillInit ==
    \E img \in FillImages, color \in Colors :
        LET c0 == Canvas_init(img.w, img.h)
        IN  Start(set_tool(set_brush_color([c0 EXCEPT !.heap[1] = img], color), "FILL"))

FillActivate(p) ==
    /\ fill_run.fills = 0
    /\ LET a == FillTool_activate(tools["FILL"], heap[image], p)
       IN  /\ heap' = [heap EXCEPT ![image] = a.img]
           /\ tools' = [tools EXCEPT !["FILL"] = a.tool]
           /\ fill_run' = [before |-> heap[image], at |-> p, pops |-> a.pops,
                          popped |-> a.popped, fills |-> 1]
    /\ last' = [op |-> "fill_activate", records |-> 0, emits |-> 0, had_redo |-> FALSE,
                returns |-> "None", emptied |-> FALSE, at |-> <<0, 0>>]
    /\ UNCHANGED <<image, image_width, image_height, image_path, undo_action, redo_action,
                   undo_stack, redo_stack,
                   drawing, panning, spacebar_panning_active, last_pan_point,
                   zoom_factor, pan_offset, transform, tool_size, brush_color,
                   current_tool, buttons, ret, hist_obs, gest, switched, steps>>

FillNext == \E p \in FillPoints : FillActivate(p)

SpecFill == FillInit /\ [][FillNext]_vars

(***************************************************************************)
(* Resizing alone: the Canvas holds any buffer of two colours and set_size *)
(* is called MaxResizes times with any width and height it accepts.        *)
(***************************************************************************)
ResizeImages ==
    UNION {{[w |-> w, h |-> h, px |-> px] : px \in [1..(w * h) -> {White, Black}]} :
           <<w, h>> \in (1..ResizeMaxW) \X (1..ResizeMaxH)}

ResizeInit ==
    \E img \in ResizeImages :
        Start([Canvas_init(img.w, img.h) EXCEPT !.heap[1] = img])

Resize(w, h) ==
    /\ steps < MaxResizes
    /\ SetSize(w, h)

ResizeNext == \E w \in 1..ResizeMaxW, h \in 1..ResizeMaxH : Resize(w, h)

SpecResize == ResizeInit /\ [][ResizeNext]_vars

(***************************************************************************)
(* Files: the image is replaced (File > New, File > Open) and saved        *)
(* (File > Save, File > Save As).  The dialog returns any of SavePaths and *)
(* each write succeeds or fails as the file system decides.                *)
(***************************************************************************)
SavePaths == {NoPath, "out.png", "locked.png"}

\* at: the path the dialog returned
SaveImageAs(file_path, writes) ==
    /\ CommitAt(save_image_as(Self, file_path, writes),
                IF file_path = NoPath THEN "save_image_as_cancelled"
                ELSE IF QImage_save(heap[image], file_path, writes) THEN "save_image_as"
                ELSE "save_image_as_failed",
                file_path)
    /\ gest' = NoGesture
    /\ UNCHANGED <<buttons, switched>>

SaveImage(file_path, writes) ==
    /\ CommitAt(save_image(Self, file_path, writes), "save_image", file_path)
    /\ gest' = NoGesture
    /\ UNCHANGED <<buttons, switched>>

FileNext ==
    \/ \E n \in NewImages : NewImage(n[1], n[2], n[3])
    \/ \E f \in Files : LoadImage(f[1], f[2])
    \/ \E file_path \in SavePaths, writes \in BOOLEAN : SaveImageAs(file_path, writes)
    \/ \E file_path \in SavePaths, writes \in BOOLEAN : SaveImage(file_path, writes)

SpecFile == Init /\ [][FileNext]_vars

(***************************************************************************)
(* The size of the image: it is resized, replaced and loaded with sizes    *)
(* the dialogs allow (one pixel or more each way), and undone and redone.  *)
(***************************************************************************)
SizeHeights == {1, 2}

SizeNext ==
    \/ \E w \in Widths \ {0}, h \in SizeHeights : SetSize(w, h)
    \/ \E n \in {m \in NewImages : m[1] >= 1 /\ m[2] >= 1} : NewImage(n[1], n[2], n[3])
    \/ \E f \in Files : LoadImage(f[1], f[2])
    \/ Undo
    \/ Redo

SpecSize == Init /\ [][SizeNext]_vars

(***************************************************************************)
(* Properties of the HistoryManager (SpecHistory).                         *)
(***************************************************************************)
\* C1: an undo called after an add_state returns an image pixel-identical to
\* the buffer as it was when add_state was called, whatever the caller painted
\* on its buffer since; a redo called after an undo that returned an image
\* returns an image pixel-identical to the buffer that was passed to that undo.
C1_RecordUndoRedo ==
    [][ /\ (last.op = "add_state" /\ last'.op = "undo")
           => (ret' # None /\ heap'[ret'] = hist_obs.rec)
        /\ (last.op = "undo" /\ hist_obs.cur # NoImage /\ last'.op = "redo")
           => (ret' # None /\ heap'[ret'] = hist_obs.cur) ]_vars

\* add_state(A), the caller paints, undo(B), redo: the redo has returned B, B differs from A
C1_Witness ==
    /\ hist_obs.seq = "rec_undo_redo"
    /\ last.op = "redo"
    /\ ret # None
    /\ heap[ret] = hist_obs.cur
    /\ hist_obs.rec # hist_obs.cur

\* C2: neither deque ever holds more than MaxHistory images; after k records in
\* a row the newest min(k, MaxHistory) entries of the undo stack are the last
\* min(k, MaxHistory) images recorded, in recording order, and once more than
\* MaxHistory were recorded the undo stack holds exactly these MaxHistory.
C2_Capacity ==
    /\ Len(undo_stack) <= MaxHistory
    /\ Len(redo_stack) <= MaxHistory
    /\ Len(undo_stack) >= Len(hist_obs.run)
    /\ KeepLast(Values(heap, undo_stack), Len(hist_obs.run)) = hist_obs.run
    /\ hist_obs.count > MaxHistory => Len(undo_stack) = MaxHistory

\* MaxHistory + 1 records in a row, the oldest one kept differing from the newest
C2_Witness ==
    /\ hist_obs.count = MaxHistory + 1
    /\ Len(undo_stack) = MaxHistory
    /\ hist_obs.run[1] # hist_obs.run[MaxHistory]
    /\ Values(heap, undo_stack) = hist_obs.run

(***************************************************************************)
(* Properties of the Canvas (Spec).                                        *)
(***************************************************************************)
\* C3: add_state leaves the redo stack empty whatever it held, so after every
\* handler that recorded a history state (a left press that draws, an accepted
\* set_size) the redo stack is empty and can_redo() is false.
C3_RecordClearsRedo ==
    /\ add_state(heap, undo_stack, redo_stack, image).redo_stack = << >>
    /\ last.records > 0 => (redo_stack = << >> /\ ~can_redo(redo_stack))

\* a left press recorded a state while the redo stack held an image
C3_Witness ==
    /\ last.op = "press_draw"
    /\ last.records = 1
    /\ last.had_redo
    /\ redo_stack = << >>

\* C4: with an empty undo stack HistoryManager.undo returns None and leaves both
\* deques as they are, and Canvas.undo changes neither the image, nor
\* image_width / image_height, nor the deques, and emits no historyChanged;
\* the same for redo with an empty redo stack.
C4_EmptyUndoRedoNoOp ==
    /\ [](~can_undo(undo_stack) =>
            LET r == undo(heap, undo_stack, redo_stack, image)
            IN  r.ret = None /\ r.undo_stack = undo_stack /\ r.redo_stack = redo_stack
                /\ r.heap = heap)
    /\ [](~can_redo(redo_stack) =>
            LET r == redo(heap, undo_stack, redo_stack, image)
            IN  r.ret = None /\ r.undo_stack = undo_stack /\ r.redo_stack = redo_stack
                /\ r.heap = heap)
    /\ [][ /\ (last'.op = "undo" /\ ~can_undo(undo_stack))
              => (/\ UNCHANGED <<heap, image, image_width, image_height,
                                 undo_stack, redo_stack>>
                  /\ last'.emits = 0)
           /\ (last'.op = "redo" /\ ~can_redo(redo_stack))
              => (/\ UNCHANGED <<heap, image, image_width, image_height,
                                 undo_stack, redo_stack>>
                  /\ last'.emits = 0) ]_vars

\* Canvas.undo has run on an empty undo stack while the redo stack held an image
C4_Witness ==
    /\ last.op = "undo"
    /\ last.emits = 0
    /\ ~can_undo(undo_stack)
    /\ can_redo(redo_stack)

\* C5: after a left press without the pan modifier, moves with the left button
\* held and the left release, with no other event in between, Canvas.undo
\* leaves the image with exactly the pixels it had before the press, and a
\* following Canvas.redo with exactly the pixels it had after the release.
C5_GestureUndoRedo ==
    /\ gest.phase = "undone" => heap[image] = gest.before
    /\ gest.phase = "redone" => heap[image] = gest.after

\* press, a move, release, undo, redo have run and the gesture had changed pixels
C5_Witness ==
    /\ gest.phase = "redone"
    /\ gest.moved
    /\ last.op = "redo"
    /\ gest.before # gest.after
    /\ heap[image] = gest.after

\* C6: a left press that draws and an accepted set_size each call add_state
\* exactly once, and the state recorded is the image as it was before the
\* handler changed anything; mouse moves and releases record nothing and leave
\* both deques as they are.
C6_RecordOncePreImage ==
    [][ /\ last'.op \in {"press_draw", "set_size"}
           => (/\ last'.records = 1
               /\ undo_stack' # << >>
               /\ heap'[Last(undo_stack')] = heap[image])
        /\ last'.op \in {"move", "release"}
           => (/\ last'.records = 0
               /\ Values(heap', undo_stack') = Values(heap, undo_stack)
               /\ Values(heap', redo_stack') = Values(heap, redo_stack)) ]_vars

\* a left press has recorded the image it then painted on
C6_Witness ==
    /\ last.op = "press_draw"
    /\ last.records = 1
    /\ undo_stack # << >>
    /\ heap[Last(undo_stack)] # heap[image]

\* C9: set_tool called while Canvas.drawing is set leaves Canvas.drawing and the
\* outgoing tool's _drawing unset, and from then until the next left press no
\* mouse move changes a pixel of the image.
C9_SetToolEndsStroke ==
    [][ /\ (last'.op = "set_tool" /\ drawing)
           => (~drawing' /\ ~tools'[current_tool].drawing)
        /\ (switched /\ last'.op = "move")
           => heap'[image'] = heap[image] ]_vars

\* the tool was switched in mid-stroke and the mouse has moved with the left button held
C9_Witness ==
    /\ switched
    /\ last.op = "move"
    /\ "Left" \in buttons
    /\ ~drawing

\* C10 (as claimed): Canvas.panning and Canvas.drawing are never both set.
C10_PanDrawExclusive == ~(panning /\ drawing)

(***************************************************************************)
(* Properties of the fill tool (SpecFill).                                 *)
(***************************************************************************)
\* two cells that share an edge
Adjacent4(c, d) == Abs(c[1] - d[1]) + Abs(c[2] - d[2]) = 1

\* the cells reachable from a set of cells by steps to an edge-sharing cell of colour t
RECURSIVE Region(_, _, _)
Region(img, t, S) ==
    LET S2 == S \cup {c \in Cells(img) :
                        img.px[Offset(img, c)] = t /\ \E d \in S : Adjacent4(c, d)}
    IN  IF S2 = S THEN S ELSE Region(img, t, S2)

FillColor == tools["FILL"].color
FillStarted == fill_run.fills > 0 /\ Contains(fill_run.before, fill_run.at)
FillTarget == fill_run.before.px[Offset(fill_run.before, fill_run.at)]

\* C7: run at a point of the buffer whose colour T is not the fill colour F,
\* FillTool.activate leaves the buffer with F on exactly the pixels reachable
\* from the point by North/South/East/West steps over pixels of colour T, and
\* with every other pixel as it was.
C7_FillRegion ==
    (FillStarted /\ FillTarget # FillColor) =>
        /\ heap[image].w = fill_run.before.w
        /\ heap[image].h = fill_run.before.h
        /\ \A c \in Cells(fill_run.before) :
              heap[image].px[Offset(fill_run.before, c)] =
                 IF c \in Region(fill_run.before, FillTarget, {fill_run.at})
                 THEN FillColor
                 ELSE fill_run.before.px[Offset(fill_run.before, c)]

\* a fill has run and a pixel of colour T that touches the filled region only
\* at a corner has kept its colour
C7_Witness ==
    /\ FillStarted
    /\ FillTarget # FillColor
    /\ \E c \in Cells(fill_run.before) :
          /\ fill_run.before.px[Offset(fill_run.before, c)] = FillTarget
          /\ Abs(c[1] - fill_run.at[1]) = 1
          /\ Abs(c[2] - fill_run.at[2]) = 1
          /\ c \notin Region(fill_run.before, FillTarget, {fill_run.at})
          /\ heap[image].px[Offset(fill_run.before, c)] = FillTarget

\* C8: run at a point off the buffer, or at a point that already has the fill
\* colour, FillTool.activate changes no pixel and leaves the tool's _drawing unset.
C8_FillNoOp ==
    (fill_run.fills > 0 /\ (~Contains(fill_run.before, fill_run.at)
                            \/ FillTarget = FillColor)) =>
        /\ heap[image] = fill_run.before
        /\ ~tools["FILL"].drawing

\* a fill has run at a pixel of the fill colour next to a pixel of another colour
C8_Witness ==
    /\ FillStarted
    /\ FillTarget = FillColor
    /\ \E c \in Cells(fill_run.before) :
          /\ Adjacent4(c, fill_run.at)
          /\ fill_run.before.px[Offset(fill_run.before, c)] # FillColor
    /\ heap[image] = fill_run.before
    /\ ~tools["FILL"].drawing

Uniform(img) == \A c, d \in Cells(img) : img.px[Offset(img, c)] = img.px[Offset(img, d)]
NoRepeat(q) == \A i, j \in 1..Len(q) : q[i] = q[j] => i = j

\* C22 as stated: the run of FillTool.activate ends having dequeued no pixel
\* twice and at most width*height pixels, and on a buffer of one colour, run
\* at any point of it, it has enqueued every pixel exactly once and left the
\* whole buffer in the fill colour.
C22_UniformAlwaysEnqueuesAll ==
    fill_run.fills > 0 =>
        /\ NoRepeat(fill_run.popped)
        /\ Len(fill_run.popped) <= fill_run.before.w * fill_run.before.h
        /\ (Contains(fill_run.before, fill_run.at) /\ Uniform(fill_run.before)) =>
              /\ SeqRange(fill_run.popped) = Cells(fill_run.before)
              /\ \A c \in Cells(fill_run.before) :
                    heap[image].px[Offset(fill_run.before, c)] = FillColor

\* C22: the run of FillTool.activate ends having dequeued no pixel twice and
\* at most width*height pixels, and on a buffer of one colour other than the
\* fill colour, run at any point of it, it has enqueued every pixel exactly
\* once and left the whole buffer in the fill colour.
C22_FillQueueBounded ==
    fill_run.fills > 0 =>
        /\ NoRepeat(fill_run.popped)
        /\ Len(fill_run.popped) <= fill_run.before.w * fill_run.before.h
        /\ (FillStarted /\ Uniform(fill_run.before) /\ FillTarget # FillColor) =>
              /\ SeqRange(fill_run.popped) = Cells(fill_run.before)
              /\ Len(fill_run.popped) = fill_run.before.w * fill_run.before.h
              /\ \A c \in Cells(fill_run.before) :
                    heap[image].px[Offset(fill_run.before, c)] = FillColor

\* a fill has run on a buffer of one colour, two pixels by two or larger, from
\* a pixel that two others reach, and has dequeued every pixel
C22_Witness ==
    /\ FillStarted
    /\ Uniform(fill_run.before)
    /\ FillTarget # FillColor
    /\ fill_run.before.w >= 2
    /\ fill_run.before.h >= 2
    /\ Len(fill_run.popped) = fill_run.before.w * fill_run.before.h
    /\ \A c \in Cells(heap[image]) : heap[image].px[Offset(heap[image], c)] = FillColor

\* C26: the two deques together never hold more than MaxHistory images; an
\* undo or a redo that returns an image moves exactly one image between the
\* deques and drops none (the stack it pops loses its newest entry, the other
\* gains a copy of the caller's buffer on top of all it held); the caller's
\* own steps change no deque; and where the caller makes each returned image
\* its buffer, k undos followed by k redos leave the buffer and both deques
\* with the contents they had before the first of the undos.
C26_HistoryBounded ==
    /\ [](Len(undo_stack) + Len(redo_stack) <= MaxHistory)
    /\ [](hist_obs.trip.phase = "redone" => HistSnapshot = hist_obs.trip.back)
    /\ [][ /\ (hist_obs'.trip.moved = "undo")
               => /\ ret' # None /\ heap'[ret'] = Last(Values(heap, undo_stack))
                  /\ Values(heap', undo_stack') = Front(Values(heap, undo_stack))
                  /\ Values(heap', redo_stack') = Append(Values(heap, redo_stack), heap[image])
           /\ (hist_obs'.trip.moved = "redo")
               => /\ ret' # None /\ heap'[ret'] = Last(Values(heap, redo_stack))
                  /\ Values(heap', redo_stack') = Front(Values(heap, redo_stack))
                  /\ Values(heap', undo_stack') = Append(Values(heap, undo_stack), heap[image])
           /\ (hist_obs'.trip.moved = "caller")
               => /\ Values(heap', undo_stack') = Values(heap, undo_stack)
                  /\ Values(heap', redo_stack') = Values(heap, redo_stack) ]_vars

\* with the undo deque full of two different images and a third in the
\* buffer, the caller has undone twice and redone twice, and sees what it saw
C26_Witness ==
    /\ hist_obs.trip.phase = "redone"
    /\ hist_obs.trip.redos = MaxHistory
    /\ hist_obs.trip.bases = << >>
    /\ Len(undo_stack) = MaxHistory
    /\ redo_stack = << >>
    /\ heap[undo_stack[1]] # heap[undo_stack[MaxHistory]]
    /\ heap[undo_stack[MaxHistory]] # heap[image]
    /\ HistSnapshot = hist_obs.trip.back

(***************************************************************************)
(* Properties of the document's life (SpecDoc).                            *)
(***************************************************************************)
\* what tells a caller that its call was refused: the result False, or an exception
Failed(r) == r \in {"False", "raised"}

\* C11 (as claimed): Canvas.set_size with w < 1 or h < 1 tells its caller that it
\* failed, and leaves the image, image_width / image_height, the zoom factor,
\* the pan offset and both deques as they were.
C11_SetSizeRejected ==
    [][ last'.op = "set_size_rejected"
        => (/\ Failed(last'.returns)
            /\ heap'[image'] = heap[image]
            /\ UNCHANGED <<image_width, image_height, zoom_factor, pan_offset, transform>>
            /\ Values(heap', undo_stack') = Values(heap, undo_stack)
            /\ Values(heap', redo_stack') = Values(heap, redo_stack)
            /\ last'.records = 0) ]_vars

\* C12 (as claimed): Canvas.new_image with a non-positive w or h tells its caller
\* that it failed, and leaves the image, image_width / image_height, image_path
\* and both deques as they were.
C12_NewImageRejected ==
    [][ last'.op = "new_image_invalid"
        => (/\ Failed(last'.returns)
            /\ heap'[image'] = heap[image]
            /\ UNCHANGED <<image_width, image_height, image_path>>
            /\ Values(heap', undo_stack') = Values(heap, undo_stack)
            /\ Values(heap', redo_stack') = Values(heap, redo_stack)) ]_vars

\* C13: a Canvas.load_image whose file does not load returns False and leaves
\* the image, image_width / image_height, image_path, the zoom factor, the pan
\* offset and both deques as they were; one whose file loads returns True.
C13_LoadFailureKeepsState ==
    [][ /\ last'.op = "load_image_failed"
           => (/\ last'.returns = "False"
               /\ heap'[image'] = heap[image]
               /\ UNCHANGED <<image_width, image_height, image_path,
                              zoom_factor, pan_offset, transform>>
               /\ Values(heap', undo_stack') = Values(heap, undo_stack)
               /\ Values(heap', redo_stack') = Values(heap, redo_stack))
        /\ last'.op = "load_image" => last'.returns = "True" ]_vars

\* a load has failed on a canvas that shows a loaded file, panned, with history
C13_Witness ==
    /\ last.op = "load_image_failed"
    /\ last.returns = "False"
    /\ image_path = "a.png"
    /\ pan_offset # <<0, 0>>
    /\ can_undo(undo_stack)

\* C14: after Canvas.new_image and after a Canvas.load_image whose file loaded,
\* both deques are empty, so can_undo() and can_redo() are false, whatever the
\* deques held before the call.
C14_NewAndLoadClearHistory ==
    last.op \in {"new_image", "new_image_invalid", "load_image"}
        => (/\ undo_stack = << >> /\ redo_stack = << >>
            /\ ~can_undo(undo_stack) /\ ~can_redo(redo_stack))

\* a file has loaded while both deques held an image
C14_Witness ==
    /\ last.op = "load_image"
    /\ last.emptied
    /\ undo_stack = << >>
    /\ redo_stack = << >>

\* C15 (as claimed): on return from an accepted Canvas.set_size, from
\* Canvas.new_image and from a Canvas.load_image whose file loaded, the zoom
\* factor is 1.0, the pan offset is (0, 0) and the transform is the identity.
C15_ViewReset ==
    last.op \in {"set_size", "new_image", "load_image"}
        => (/\ zoom_factor = ZoomOne
            /\ pan_offset = <<0, 0>>
            /\ transform = [m |-> ZoomOne, dx |-> 0, dy |-> 0])

\* C16: a handler that changes the value of can_undo() or of can_redo() emits
\* historyChanged, and after every handler the flags PaintApp sets when the
\* signal arrives (undo_action, redo_action enabled) are the values can_undo()
\* and can_redo() have.
C16_ObserverInSync ==
    /\ [](undo_action = can_undo(undo_stack) /\ redo_action = can_redo(redo_stack))
    /\ [][ (\/ can_undo(undo_stack') # can_undo(undo_stack)
            \/ can_redo(redo_stack') # can_redo(redo_stack))
           => last'.emits > 0 ]_vars

\* a redo has emptied the redo stack and the redo action is disabled again
C16_Witness ==
    /\ last.op = "redo"
    /\ last.emits = 1
    /\ ~can_redo(redo_stack)
    /\ ~redo_action
    /\ undo_action

(***************************************************************************)
(* Properties of the view (SpecView).                                      *)
(***************************************************************************)
\* C17: the zoom factor is at least 0.1 and at most 10.0 in every state.
C17_ZoomClamped ==
    /\ ~RatLess(zoom_factor, ZoomMin)
    /\ ~RatLess(ZoomMax, zoom_factor)

\* a notch up at zoom 10.0 (or just below it) has been clamped to 10.0
C17_Witness ==
    /\ last.op = "wheel"
    /\ zoom_factor = ZoomMax

\* C18 (as claimed): the image point under the cursor, as the Canvas transform
\* maps the cursor's position to the image, is the same before and after a
\* wheel event at that position.
C18_ZoomToCursor ==
    [][ last'.op = "wheel"
        => MapInverse(transform', last'.at) = MapInverse(transform, last'.at) ]_vars

(***************************************************************************)
(* Properties of the toolbar (SpecTools).                                  *)
(***************************************************************************)
\* C19: the eraser's colour is white in every state, whatever set_brush_color,
\* set_tool and set_tool_size were called with and whichever tool was current,
\* and a press or a move with the eraser current leaves every pixel of the
\* image either as it was or white.
C19_EraserWhite ==
    /\ [](tools["ERASER"].color = White)
    /\ [][ (last'.op \in {"press_draw", "move"} /\ current_tool = "ERASER")
           => \A i \in 1..Len(heap[image].px) :
                 heap'[image'].px[i] \in {heap[image].px[i], White} ]_vars

\* with red as the brush colour, an eraser press has turned a black pixel white
C19_Witness ==
    /\ last.op = "press_draw"
    /\ current_tool = "ERASER"
    /\ brush_color = Red
    /\ gest.phase = "stroke"
    /\ \E i \in 1..Len(heap[image].px) :
          gest.before.px[i] = Black /\ heap[image].px[i] = White

(***************************************************************************)
(* Properties of resizing (SpecResize).                                    *)
(***************************************************************************)
\* C20: an accepted Canvas.set_size(w, h) leaves a w x h image whose pixel at
\* (x, y) is the old image's pixel at (x, y) where the old image has one and
\* white elsewhere; and after a resize and a second one back to the first
\* size, every pixel of the region the first and the second image share is as
\* it was before the first.
C20_ResizeKeepsCommonRegion ==
    [][ /\ last'.op = "set_size"
           => (/\ heap'[image'].w = last'.at[1]
               /\ heap'[image'].h = last'.at[2]
               /\ image_width' = last'.at[1]
               /\ image_height' = last'.at[2]
               /\ Len(heap'[image'].px) = last'.at[1] * last'.at[2]
               /\ \A c \in Cells(heap'[image']) :
                     QImage_pixel(heap'[image'], c) =
                        IF Contains(heap[image], c) THEN QImage_pixel(heap[image], c)
                        ELSE White)
        /\ (/\ last.op = "set_size" /\ last'.op = "set_size"
            /\ heap'[image'].w = heap[Last(undo_stack)].w
            /\ heap'[image'].h = heap[Last(undo_stack)].h)
           => \A c \in Cells(heap[Last(undo_stack)]) \cap Cells(heap[image]) :
                 QImage_pixel(heap'[image'], c) = QImage_pixel(heap[Last(undo_stack)], c)
      ]_vars

\* an image was made narrower and then as wide as before: a black pixel of the
\* part kept is still black, a black pixel of the part cut off is now white
C20_Witness ==
    /\ last.op = "set_size"
    /\ Len(undo_stack) = 2
    /\ heap[image].w = heap[undo_stack[1]].w
    /\ heap[image].h = heap[undo_stack[1]].h
    /\ heap[undo_stack[2]].w < heap[undo_stack[1]].w
    /\ \E c \in Cells(heap[undo_stack[1]]) :
          /\ Contains(heap[undo_stack[2]], c)
          /\ QImage_pixel(heap[undo_stack[1]], c) = Black
          /\ QImage_pixel(heap[image], c) = Black
    /\ \E c \in Cells(heap[undo_stack[1]]) :
          /\ ~Contains(heap[undo_stack[2]], c)
          /\ QImage_pixel(heap[undo_stack[1]], c) = Black
          /\ QImage_pixel(heap[image], c) = White

(***************************************************************************)
(* Further properties of the Canvas (Spec).                                *)
(***************************************************************************)
\* C21: a left press that draws with the fill tool current leaves
\* FillTool._drawing unset and Canvas.drawing as it was, unset; a mouse move
\* while the fill tool is current changes no pixel; and FillTool.move leaves
\* the image as it is at every point, whatever the tool's state.
C21_FillSingleShot ==
    /\ [](\A pos \in Positions, d \in BOOLEAN :
            FillTool_move([tools["FILL"] EXCEPT !.drawing = d], heap[image], pos).img
               = heap[image])
    /\ [][ /\ (last'.op = "press_draw" /\ current_tool = "FILL")
              => (~tools'["FILL"].drawing /\ drawing' = drawing /\ ~drawing')
           /\ (last'.op = "move" /\ current_tool = "FILL")
              => heap'[image'] = heap[image] ]_vars

\* the fill tool has recoloured the image on a left press and the mouse has
\* moved with the left button still held
C21_Witness ==
    /\ last.op = "move"
    /\ current_tool = "FILL"
    /\ "Left" \in buttons
    /\ gest.phase = "stroke"
    /\ gest.moved
    /\ gest.before # heap[image]
    /\ ~drawing

\* C23: whenever a press or a move of the mouse changes a pixel of the image
\* through the current tool, the redo stack is empty once the handler returns:
\* no image is edited while can_redo() holds.
C23_EditClearsRedo ==
    [][ (last'.op \in {"press_draw", "move"} /\ heap'[image'] # heap[image])
           => ~can_redo(redo_stack') ]_vars

\* C24: a left press that draws with the fill tool current and changes no
\* pixel (the point is off the image, or its pixel has the fill colour) leaves
\* the images of the undo deque and of the redo deque as they were.
C24_NoOpFillKeepsHistory ==
    [][ ( /\ "Left" \in buttons' /\ "Left" \notin buttons
          /\ last'.op = "press_draw"
          /\ current_tool = "FILL"
          /\ heap'[image'] = heap[image] )
           => /\ Values(heap', undo_stack') = Values(heap, undo_stack)
              /\ Values(heap', redo_stack') = Values(heap, redo_stack) ]_vars

\* C28: when mouseReleaseEvent has handled the release of the left button,
\* Canvas.drawing is unset and so is the current tool's _drawing.
C28_ReleaseEndsDrawing ==
    [][ ("Left" \in buttons /\ "Left" \notin buttons' /\ last'.op = "release")
           => (~drawing' /\ ~tools'[current_tool'].drawing) ]_vars

(***************************************************************************)
(* Properties of saving (SpecFile).                                        *)
(***************************************************************************)
\* C25: save_image_as called and cancelled returns True and leaves image_path
\* as it was; save_image_as whose write fails returns False and leaves
\* image_path as it was; save_image_as whose write succeeds returns True and
\* remembers the chosen path.
C25_SaveAsKeepsPathOnFailure ==
    [][ /\ (last'.op = "save_image_as_cancelled")
              => (last'.returns = "True" /\ image_path' = image_path)
        /\ (last'.op = "save_image_as_failed")
              => (last'.returns = "False" /\ image_path' = image_path)
        /\ (last'.op = "save_image_as")
              => (last'.returns = "True" /\ image_path' = last'.at) ]_vars

(***************************************************************************)
(* Properties of the image's size (SpecSize).                              *)
(***************************************************************************)
\* C27: Canvas.image_width and Canvas.image_height are the width and the
\* height of Canvas.image.
C27_SizeFieldsMatchImage ==
    /\ image_width = heap[image].w
    /\ image_height = heap[image].h

====
